---- MODULE Spec2Model ----
(***************************************************************************)
(* Model of the incremental-update pipeline of sync-doge-scrape:           *)
(*   src/doge_scrape.py       df_row_diff_2, extend_contract_data,         *)
(*                            extend_grant_data, limit_req, log_row_error, *)
(*                            scrape_doge_endpoint, clean_stub_df          *)
(*   src/sync_doge_scrape.py  run_pipeline, update_doge_data,              *)
(*                            save_doge_data_bln, copy_scrape_files_to_bln *)
(*   src/helpers.py, src/run.py   set_environment, the entry point         *)
(* Seven specifications share the module:                                  *)
(*   SpecDiff    the row loop of df_row_diff_2 on bounded tables           *)
(*   SpecEnrich  the row loops of extend_contract_data / extend_grant_data *)
(*   Spec        one run of run_pipeline                                   *)
(*   SpecLimit   calls of limit_req under its rate limiter                 *)
(*   SpecCrawl   the page loop of scrape_doge_endpoint                     *)
(*   SpecClean   clean_stub_df, applied once and twice                     *)
(*   SpecRun     run.py: set_environment, then run_pipeline                *)
(***************************************************************************)
EXTENDS Integers, Sequences, FiniteSets, TLC

VARIABLES
    \* df_row_diff_2 (src/doge_scrape.py:121-129)
    old_df, stub_df, new_df, drop_idx, diff_k, diff_pc,
    \* extend_contract_data / extend_grant_data (src/doge_scrape.py:168-204)
    enr_mode, enr_in, enr_resp, enr_df, enr_k, enr_log, enr_out, enr_pc,
    \* run_pipeline (src/sync_doge_scrape.py:348-430) and what it calls
    pc,                 \* the statement run_pipeline is at
    fatal_at,           \* the step an unhandled exception was raised in
    snapshot,           \* the remote project's latest snapshot, per category
    remote_new,         \* files this run has uploaded to the remote project
    bln_project_files,  \* names of the latest snapshot files
    tmp_data,           \* files present in ./tmp_data
    pre_dfs, stub_dfs, new_dfs, new_data_stats, out_dfs, runlog,
    written,            \* files save_doge_data_bln has written, in order
    new_scrape_files,
    uploads, up_k,
    attempts,           \* client.upload_file calls: [file, ok], in order
    file_upload_message, outcome,
    posted,             \* SLACK_BOT_INTERNAL_ALERTER.post calls, in order
    \* limit_req under @sleep_and_retry @limits (src/doge_scrape.py:74-80)
    lim_now,            \* the clock, in seconds
    last_reset,         \* start of the limiter's current period
    num_calls,          \* attempts the limiter has counted in the period
    lim_pc,             \* "idle", or "sleeping" inside sleep_and_retry
    lim_wake,           \* the clock value the sleep ends at
    lim_calls,          \* calls of limit_req made so far
    lim_total,          \* requests issued so far
    lim_window,         \* requests issued in the limiter's current period
    lim_recent,         \* requests issued at now, now-1, .. now-LIMIT_S+1
    lim_slept,          \* sleeps of the latest call
    lim_result,         \* how the latest call ended
    \* scrape_doge_endpoint (src/doge_scrape.py:85-97)
    cr_pc, cr_endpoint,
    cr_pages,           \* the page count the source reports
    cr_site,            \* the records the source serves, by page
    page, p_scrape, endpoint_json_list,
    cr_requests,        \* requests issued: [page, via], in order
    cr_df,              \* the table returned
    \* clean_stub_df (src/doge_scrape.py:131-149)
    cl_pc,
    cl_in,              \* the raw table
    cl_out,             \* clean_stub_df(cl_in): [raised, df]
    cl_out2,            \* clean_stub_df of the table returned
    \* run.py and set_environment (src/run.py:21-24, src/helpers.py:29-80)
    rp_pc, sys_argv,
    os_environ,         \* os.environ on the required keys
    dotenv_file,        \* the .env.<env> file on the required keys
    rp_key,             \* position in required_env_vars
    environment,
    rp_requests         \* network requests issued, in order

diffVars == <<old_df, stub_df, new_df, drop_idx, diff_k, diff_pc>>
enrVars == <<enr_mode, enr_in, enr_resp, enr_df, enr_k, enr_log, enr_out, enr_pc>>
pipeVars == <<pc, fatal_at, snapshot, remote_new, bln_project_files, tmp_data,
              pre_dfs, stub_dfs, new_dfs, new_data_stats, out_dfs, runlog,
              written, new_scrape_files, uploads, up_k, attempts,
              file_upload_message, outcome, posted>>
limVars == <<lim_now, last_reset, num_calls, lim_pc, lim_wake, lim_calls,
             lim_total, lim_window, lim_recent, lim_slept, lim_result>>
crawlVars == <<cr_pc, cr_endpoint, cr_pages, cr_site, page, p_scrape,
               endpoint_json_list, cr_requests, cr_df>>
cleanVars == <<cl_pc, cl_in, cl_out, cl_out2>>
runVars == <<rp_pc, sys_argv, os_environ, dotenv_file, rp_key, environment,
             rp_requests>>
auxVars == <<limVars, crawlVars, cleanVars, runVars>>
\* what the steps of limit_req leave alone
limOthers == <<diffVars, enrVars, pipeVars, crawlVars, cleanVars, runVars>>
\* what the steps of scrape_doge_endpoint leave alone
crawlOthers == <<diffVars, enrVars, pipeVars, limVars, cleanVars, runVars>>
\* what the steps of clean_stub_df leave alone
cleanOthers == <<diffVars, enrVars, pipeVars, limVars, crawlVars, runVars>>
\* what the steps of set_environment leave alone
runOthers == <<diffVars, enrVars, pipeVars, limVars, crawlVars, cleanVars>>
vars == <<diffVars, enrVars, pipeVars, auxVars>>

(***************************************************************************)
(* Bounds of the model.                                                    *)
(***************************************************************************)
\* number of comparison columns of a table; column 1 is the link column
NCols == 2
\* longest table drawn as an input of df_row_diff_2 or of an enrichment loop
MaxRows == 2
\* most rows the previous snapshots hold, over the three categories
MaxSnapshotRows == 2
\* most rows the source site serves, over the three endpoints
MaxSiteRows == 3

(***************************************************************************)
(* Tables.  A cell is a string; NaN is pandas' null.  A row is a tuple of  *)
(* cells over the comparison columns.  A frame is a sequence of entries    *)
(* [idx, row]: idx is the pandas index label of the row.                   *)
(***************************************************************************)
NaN == "NaN"
CellValues == {NaN, "url", "x"}
Cols == 1..NCols
Rows == [Cols -> CellValues]

RECURSIVE SeqsUpTo(_, _)
SeqsUpTo(S, n) ==
    IF n = 0 THEN {<<>>}
    ELSE LET shorter == SeqsUpTo(S, n - 1)
         IN  shorter \cup {Append(s, x) : s \in {t \in shorter : Len(t) = n - 1}, x \in S}

\* pd.DataFrame(list) / pd.read_csv give a RangeIndex: labels 0..n-1
RangeFrame(rows) == [i \in 1..Len(rows) |-> [idx |-> i - 1, row |-> rows[i]]]

RowsOf(frame) == [i \in 1..Len(frame) |-> frame[i].row]

(***************************************************************************)
(* df_row_diff_2                                                           *)
(***************************************************************************)
\* one cell of  old_df[stub_df.columns] == row : pandas' elementwise ==,
\* which is False whenever either side is null
cell_eq(a, b) == a = b /\ a # NaN /\ b # NaN

\* match_series = (old_df[stub_df.columns] == row).all(axis=1)
match_series(old, row) ==
    [p \in 1..Len(old) |-> \A c \in Cols : cell_eq(old[p][c], row[c])]

\* np.arange(len(match_series))[match_series] : 0-based positions of the matches
match_positions(old, row) ==
    {p - 1 : p \in {q \in 1..Len(old) : match_series(old, row)[q]}}

\* new_df.drop(idx, axis=0)
drop_label(frame, label) ==
    LET Keep(e) == e.idx # label
    IN  SelectSeq(frame, Keep)

\* the body of the for loop, for one (idx, row) of the iteration
diff_iter(old, st, e) ==
    IF \E p \in 1..Len(old) : match_series(old, e.row)[p]
    THEN [new_df |-> drop_label(st.new_df, e.idx),
          drop_idx |-> Append(st.drop_idx, match_positions(old, e.row))]
    ELSE st

RECURSIVE diff_fold(_, _, _, _)
diff_fold(old, stub, st, k) ==
    IF k > Len(stub) THEN st
    ELSE diff_fold(old, stub, diff_iter(old, st, stub[k]), k + 1)

\* df_row_diff_2(old_df, stub_df) -> (new_df, drop_idx)
df_row_diff_2(old, stub) ==
    diff_fold(old, stub, [new_df |-> stub, drop_idx |-> <<>>], 1)

DiffIdle ==
    /\ old_df = <<>> /\ stub_df = <<>> /\ new_df = <<>>
    /\ drop_idx = <<>> /\ diff_k = 0 /\ diff_pc = "idle"

InitDiffInputs ==
    /\ old_df \in SeqsUpTo(Rows, MaxRows)
    /\ stub_df \in {RangeFrame(r) : r \in SeqsUpTo(Rows, MaxRows)}
    /\ new_df = stub_df          \* new_df = stub_df.copy()
    /\ drop_idx = <<>>
    /\ diff_k = 1
    /\ diff_pc = "loop"

\* one iteration of  for idx, row in new_df.iterrows()
DiffLoop ==
    /\ diff_pc = "loop"
    /\ diff_k <= Len(stub_df)
    /\ LET st == diff_iter(old_df, [new_df |-> new_df, drop_idx |-> drop_idx],
                           stub_df[diff_k])
       IN  /\ new_df' = st.new_df
           /\ drop_idx' = st.drop_idx
    /\ diff_k' = diff_k + 1
    /\ UNCHANGED <<old_df, stub_df, diff_pc>>
    /\ UNCHANGED <<enrVars, pipeVars, auxVars>>

\* return new_df, drop_idx
DiffReturn ==
    /\ diff_pc = "loop"
    /\ diff_k > Len(stub_df)
    /\ diff_pc' = "returned"
    /\ UNCHANGED <<old_df, stub_df, new_df, drop_idx, diff_k>>
    /\ UNCHANGED <<enrVars, pipeVars, auxVars>>

\* the claim's row identity: equal on every comparison column, null = null
row_identical(a, b) == \A c \in Cols : a[c] = b[c]

\* C1: when df_row_diff_2 returns, new_df holds exactly the rows of stub_df
\* (with their labels, in order) that have no row of old_df equal on every
\* comparison column, two nulls in the same column counting as equal.
C1_DiffNullsEqual ==
    diff_pc = "returned" =>
        LET NoCounterpart(e) ==
                ~ \E p \in 1..Len(old_df) : row_identical(old_df[p], e.row)
        IN  new_df = SelectSeq(stub_df, NoCounterpart)

(***************************************************************************)
(* extend_contract_data / extend_grant_data                                *)
(***************************************************************************)
\* what the secondary source answers to one fetch:
\*   "ok"          status 200 and a body the parser accepts
\*   "http_error"  a response whose status is not 200
\*   "raise"       the request or the parsing of its body raises
\*   "none" records that no fetch was made for the row
Responses == {"ok", "http_error", "raise"}

\* validators.url(link) on a string: true for a well-formed URL only
validators_url(link) == link = "url"

\* rows of fpds_df / usas_df: "data" (columns with values), "none" (columns,
\* every value None), "empty" (pd.DataFrame([], index=[0]): a row, no column)
EmptyRow == "empty"

\* parse_fpds_html on the body of a response: the named inputs of an FPDS
\* page, None for every element the body does not hold
parse_fpds_html(resp) == IF resp = "ok" THEN "data" ELSE "none"

\* one line "<mode>,<dt>,<url>" of ./runlog/scrape-<dt>.txt
log_row_error(log, mode, req_url) ==
    Append(log, [mode |-> mode, dt |-> "dt", url |-> req_url])

\* usas_req_url = os.path.join(api_root, os.path.basename(link))
usas_req_url(link) == <<"https://api.usaspending.gov/api/v2/awards/", link>>

\* limit_req: req.get, then raise unless status_code == 200
limit_req_raises(resp) == resp # "ok"

\* req.get(fpds_link, headers=rh) raises only when the request itself fails
req_get_raises(resp) == resp = "raise"

\* contract_iter, had the else branch logged the link it refuses to fetch
contract_iter_logs_bad_link(st, link, resp) ==
    IF validators_url(link)
    THEN IF req_get_raises(resp)
         THEN [df |-> Append(st.df, EmptyRow),
               log |-> log_row_error(st.log, "contract", <<link>>)]
         ELSE [df |-> Append(st.df, parse_fpds_html(resp)), log |-> st.log]
    ELSE [df |-> Append(st.df, EmptyRow),
          log |-> log_row_error(st.log, "contract", <<link>>)]

\* the body of the for loop of extend_contract_data, for one fpds_link
contract_iter(st, link, resp) ==
    IF validators_url(link)
    THEN IF req_get_raises(resp)
         THEN [df |-> Append(st.df, EmptyRow),
               log |-> log_row_error(st.log, "contract", <<link>>)]
         ELSE [df |-> Append(st.df, parse_fpds_html(resp)), log |-> st.log]
    ELSE [df |-> Append(st.df, EmptyRow), log |-> st.log]

\* the body of the for loop of extend_grant_data, for one link
grant_iter(st, link, resp) ==
    IF validators_url(link)
    THEN IF limit_req_raises(resp)
         THEN [df |-> Append(st.df, EmptyRow),
               log |-> log_row_error(st.log, "grant", usas_req_url(link))]
         ELSE [df |-> Append(st.df, "data"), log |-> st.log]
    ELSE [df |-> Append(st.df, EmptyRow), log |-> st.log]

enrich_iter(mode, st, link, resp) ==
    IF mode = "contract" THEN contract_iter(st, link, resp)
    ELSE grant_iter(st, link, resp)

\* reset_index left out: the rows keep the labels the diff left them
reset_index_omitted(frame) == frame

\* contract_df.reset_index().drop('index', axis=1): labels become 0..n-1
reset_index(frame) == RangeFrame(RowsOf(frame))

NullRow == [c \in Cols |-> NaN]

\* the value a cell of the enrichment columns takes in the joined table
enr_value(kind) == IF kind = "data" THEN "data" ELSE NaN

\* pd.concat([left, right], axis=1): outer join on the index labels; right is
\* a sequence of enrichment rows labelled 0..m-1
concat_axis1(left, right) ==
    LET leftLabels == {left[i].idx : i \in 1..Len(left)}
        RightOnly(j) == (j - 1) \notin leftLabels
        extra == SelectSeq([j \in 1..Len(right) |-> j], RightOnly)
        Enr(label) == IF label + 1 \in 1..Len(right)
                      THEN enr_value(right[label + 1]) ELSE NaN
    IN  [i \in 1..Len(left) |->
            [idx |-> left[i].idx, row |-> left[i].row, enr |-> Enr(left[i].idx)]]
        \o
        [n \in 1..Len(extra) |->
            [idx |-> extra[n] - 1, row |-> NullRow, enr |-> Enr(extra[n] - 1)]]

\* return pd.concat([df.reset_index().drop('index',axis=1), fpds_df], axis=1)
extend_return(frame, df) == concat_axis1(reset_index(frame), df)

RECURSIVE enrich_fold(_, _, _, _, _)
enrich_fold(mode, frame, resps, st, k) ==
    IF k > Len(frame) THEN st
    ELSE enrich_fold(mode, frame, resps,
                     enrich_iter(mode, st, frame[k].row[1], resps[k]), k + 1)

\* extend_contract_data(contract_df, dt) under the responses resps
extend_contract_data(frame, resps) ==
    LET st == enrich_fold("contract", frame, resps, [df |-> <<>>, log |-> <<>>], 1)
    IN  [out |-> extend_return(frame, st.df), log |-> st.log]

\* extend_grant_data(grant_df, dt) under the responses resps
extend_grant_data(frame, resps) ==
    LET st == enrich_fold("grant", frame, resps, [df |-> <<>>, log |-> <<>>], 1)
    IN  [out |-> extend_return(frame, st.df), log |-> st.log]

\* rows whose link column holds a string (a URL or not)
LinkRows == {r \in Rows : r[1] # NaN}

\* the frames df_row_diff_2 can hand to the enrichment: rows of a scraped
\* table that kept their labels while others were dropped
SubFrames(S, n) ==
    UNION {{LET Keep(e) == e.idx \in keep IN SelectSeq(RangeFrame(r), Keep) :
                keep \in SUBSET (0..(Len(r) - 1))} : r \in SeqsUpTo(S, n)}

EnrichIdle ==
    /\ enr_mode = "none" /\ enr_in = <<>> /\ enr_resp = <<>> /\ enr_df = <<>>
    /\ enr_k = 0 /\ enr_log = <<>> /\ enr_out = <<>> /\ enr_pc = "idle"

InitEnrichInputs ==
    /\ enr_mode \in {"contract", "grant"}
    /\ enr_in \in SubFrames(LinkRows, MaxRows)
    /\ enr_resp = <<>>
    /\ enr_df = <<>>             \* fpds_df = pd.DataFrame([])
    /\ enr_k = 1
    /\ enr_log = <<>>
    /\ enr_out = <<>>
    /\ enr_pc = "loop"

\* one iteration of  for fpds_link in contract_df.fpds_link.values  (or of
\* for link in grant_df.link.values), the source answering resp
EnrichLoop ==
    /\ enr_pc = "loop"
    /\ enr_k <= Len(enr_in)
    /\ LET link == enr_in[enr_k].row[1]
       IN  \E resp \in (IF validators_url(link) THEN Responses ELSE {"none"}) :
              LET st == enrich_iter(enr_mode, [df |-> enr_df, log |-> enr_log],
                                    link, resp)
              IN  /\ enr_df' = st.df
                  /\ enr_log' = st.log
                  /\ enr_resp' = Append(enr_resp, resp)
    /\ enr_k' = enr_k + 1
    /\ UNCHANGED <<enr_mode, enr_in, enr_out, enr_pc>>
    /\ UNCHANGED <<diffVars, pipeVars, auxVars>>

\* the return statement: the input joined with the enrichment rows
EnrichReturn ==
    /\ enr_pc = "loop"
    /\ enr_k > Len(enr_in)
    /\ enr_out' = extend_return(enr_in, enr_df)
    /\ enr_pc' = "returned"
    /\ UNCHANGED <<enr_mode, enr_in, enr_resp, enr_df, enr_k, enr_log>>
    /\ UNCHANGED <<diffVars, pipeVars, auxVars>>

\* the URL a log line of the row's failure carries
req_url_of(mode, link) ==
    IF mode = "contract" THEN <<link>> ELSE usas_req_url(link)

LinkOf(i) == enr_in[i].row[1]

\* C5: the table either enrichment returns has as many rows as its input, in
\* the same order, the input columns of row i unchanged at position i,
\* whatever the links and the answers of the secondary source were.
C5_EnrichKeepsRows ==
    enr_pc = "returned" =>
        /\ Len(enr_out) = Len(enr_in)
        /\ \A i \in 1..Len(enr_in) : enr_out[i].row = enr_in[i].row

\* a returned enrichment of two rows, one skipped for its link, one failed
C5_Witness ==
    /\ enr_pc = "returned"
    /\ Len(enr_in) = 2
    /\ \E i, j \in 1..2 : enr_resp[i] = "none" /\ enr_resp[j] = "raise"

\* C6: every row whose fetch got a non-success status or failed otherwise is
\* kept with null enrichment, has its one line in the error log (the log is
\* exactly the lines of the failed rows, in order), and the loop went on to
\* the last row.
C6_FailedFetchLogged ==
    enr_pc = "returned" =>
        LET Failed(i) == enr_resp[i] \in {"http_error", "raise"}
            failed == SelectSeq([i \in 1..Len(enr_in) |-> i], Failed)
        IN  /\ Len(enr_resp) = Len(enr_in)
            /\ Len(enr_out) = Len(enr_in)
            /\ \A i \in 1..Len(enr_in) :
                  Failed(i) => /\ enr_out[i].row = enr_in[i].row
                               /\ enr_out[i].enr = NaN
            /\ enr_log = [n \in 1..Len(failed) |->
                            [mode |-> enr_mode, dt |-> "dt",
                             url |-> req_url_of(enr_mode, LinkOf(failed[n]))]]

CatSet == {"contract", "grant", "property"}
CatOrder == <<"contract", "grant", "property">>

\* the latest snapshot file of a category in the remote project
prev_file(c) == [cat |-> c, ts |-> "prev"]
\* f"doge-{c}_{dt_str}.csv"
new_file(c) == [cat |-> c, ts |-> "dt_str"]

\* rows the site serves and snapshots hold: one with a well-formed link and
\* no null, one with every cell null (read_csv gives NaN for an empty field)
SiteRows == {[c \in Cols |-> IF c = 1 THEN "url" ELSE "x"], [c \in Cols |-> NaN]}

TablesWithin(S, n) ==
    {t \in [CatSet -> SeqsUpTo(S, n)] :
        Len(t.contract) + Len(t.grant) + Len(t.property) <= n}

NoTables == [c \in CatSet |-> <<>>]

\* list_new_bln_project_files(bln_client, bln_project_id): the most recent
\* snapshot file of each category
list_new_bln_project_files == [i \in 1..3 |-> prev_file(CatOrder[i])]

SeqToSet(q) == {q[i] : i \in 1..Len(q)}

\* steps of update_doge_data
UpdateSteps == {"load", "crawl", "normalize", "diff", "enrich_contract", "enrich_grant"}

\* had run_pipeline caught the exceptions of update_doge_data and gone on
raise_swallowed(step) ==
    [pc |-> IF step \in UpdateSteps THEN "save" ELSE "aborted", fatal_at |-> step]

\* had update_doge_data retried the crawl after a failed enrichment
raise_retry_crawl(step) ==
    [pc |-> IF step \in {"enrich_contract", "enrich_grant"} THEN "crawl" ELSE "aborted",
     fatal_at |-> step]

\* an exception no handler catches ends the run at the step that raised it
raise_unhandled(step) == [pc |-> "aborted", fatal_at |-> step]

Fatal(step) ==
    /\ pc' = raise_unhandled(step).pc
    /\ fatal_at' = step

\* clean_stub_df on the comparison columns modelled: df.link.fillna('') for
\* the table that has a 'link' column (grants)
clean_stub_df(cat, frame) ==
    [i \in 1..Len(frame) |->
        [idx |-> frame[i].idx,
         row |-> [c \in Cols |->
                    IF cat = "grant" /\ c = 1 /\ frame[i].row[c] = NaN
                    THEN "" ELSE frame[i].row[c]]]]

\* pd.concat([new_df, pre_df], ignore_index=True): the new rows first
concat_new_pre(pre, newframe) ==
    [i \in 1..Len(newframe) |->
        [row |-> newframe[i].row, enr |-> newframe[i].enr, dt_scrape |-> "dt"]]
    \o
    [i \in 1..Len(pre) |-> [row |-> pre[i], enr |-> "prev", dt_scrape |-> "prev"]]

\* pd.concat([pre_df, new_df], ignore_index=True), new_df['dt_scrape'] set
concat_pre_new(pre, newframe) ==
    [i \in 1..Len(pre) |-> [row |-> pre[i], enr |-> "prev", dt_scrape |-> "prev"]]
    \o
    [i \in 1..Len(newframe) |->
        [row |-> newframe[i].row, enr |-> newframe[i].enr, dt_scrape |-> "dt"]]

\* a property row has no enrichment column of its own
without_enrichment(frame) ==
    [i \in 1..Len(frame) |-> [idx |-> frame[i].idx, row |-> frame[i].row, enr |-> NaN]]

\* the answers the secondary source may give for the rows of a frame
ResponsesFor(frame) ==
    {r \in [1..Len(frame) -> Responses \cup {"none"}] :
        \A i \in 1..Len(frame) :
            (r[i] = "none") <=> ~ validators_url(frame[i].row[1])}

\* save_doge_data_bln with >= for > : a file for every category
save_doge_data_bln_ge(stats) ==
    LET HasNew(f) == stats[f.cat] >= 0
    IN  SelectSeq([i \in 1..3 |-> new_file(CatOrder[i])], HasNew)

\* save_doge_data_bln, the three  if new_data_stats[...] > 0  in order:
\* the names of the files written
save_doge_data_bln(stats) ==
    LET HasNew(f) == stats[f.cat] > 0
    IN  SelectSeq([i \in 1..3 |-> new_file(CatOrder[i])], HasNew)

\* upload_iter without the except clause: a failed upload leaves the loop
upload_iter_uncaught(u, filename, ok) ==
    [uploads |-> IF ok THEN [u EXCEPT !.success = Append(@, filename)] ELSE u,
     escaped |-> ~ ok]

\* the body of the for loop of copy_scrape_files_to_bln for one file: ok is
\* whether client.upload_file returned; escaped is whether an exception
\* leaves the loop body
upload_iter(u, filename, ok) ==
    [uploads |-> IF ok THEN [u EXCEPT !.success = Append(@, filename)] ELSE u,
     escaped |-> FALSE]

uploaded_part(names) == [kind |-> "uploaded", n |-> Len(names), names |-> names]
failed_part(names) == [kind |-> "failed", n |-> Len(names), names |-> names]
no_new_files == [kind |-> "No new files found.", n |-> 0, names |-> <<>>]

\* run_pipeline lines 410-421: the two ifs and the else of the second
report_message(u) ==
    IF ~ u.bound
    THEN [raised |-> TRUE, message |-> <<>>, outcome |-> "unset"]
    ELSE IF u.failure # <<>>
         THEN IF u.success = <<>>
              THEN [raised |-> TRUE, message |-> <<>>, outcome |-> "unset"]
              ELSE [raised |-> FALSE,
                    message |-> <<uploaded_part(u.success), failed_part(u.failure)>>,
                    outcome |-> "error"]
         ELSE [raised |-> FALSE, message |-> <<no_new_files>>, outcome |-> "success"]

Unbound == [bound |-> FALSE, success |-> <<>>, failure |-> <<>>]

PipeIdle ==
    /\ pc = "idle" /\ fatal_at = "none" /\ snapshot = NoTables
    /\ remote_new = {} /\ bln_project_files = <<>> /\ tmp_data = {}
    /\ pre_dfs = NoTables /\ stub_dfs = NoTables /\ new_dfs = NoTables
    /\ new_data_stats = [c \in CatSet |-> 0] /\ out_dfs = NoTables
    /\ runlog = <<>> /\ written = <<>> /\ new_scrape_files = <<>>
    /\ uploads = Unbound /\ up_k = 0 /\ attempts = <<>>
    /\ file_upload_message = <<>> /\ outcome = "unset" /\ posted = <<>>

InitPipe ==
    /\ pc = "start" /\ fatal_at = "none"
    /\ snapshot \in TablesWithin(SiteRows, MaxSnapshotRows)
    /\ remote_new = {} /\ bln_project_files = <<>> /\ tmp_data = {}
    /\ pre_dfs = NoTables /\ stub_dfs = NoTables /\ new_dfs = NoTables
    /\ new_data_stats = [c \in CatSet |-> 0] /\ out_dfs = NoTables
    /\ runlog = <<>> /\ written = <<>> /\ new_scrape_files = <<>>
    /\ uploads = Unbound /\ up_k = 0 /\ attempts = <<>>
    /\ file_upload_message = <<>> /\ outcome = "unset" /\ posted = <<>>

\* line 387
ListFiles ==
    /\ pc = "start"
    /\ bln_project_files' = list_new_bln_project_files
    /\ pc' = "load"
    /\ UNCHANGED <<fatal_at, snapshot, remote_new, tmp_data, pre_dfs, stub_dfs,
                   new_dfs, new_data_stats, out_dfs, runlog, written,
                   new_scrape_files, uploads, up_k, attempts,
                   file_upload_message, outcome, posted>>
    /\ UNCHANGED <<diffVars, enrVars, auxVars>>

\* load_pre_data_bln: every file downloaded into ./tmp_data, then read
LoadPre ==
    /\ pc = "load"
    /\ tmp_data' = tmp_data \cup SeqToSet(bln_project_files)
    /\ pre_dfs' = snapshot
    /\ pc' = "crawl"
    /\ UNCHANGED <<fatal_at, snapshot, remote_new, bln_project_files, stub_dfs,
                   new_dfs, new_data_stats, out_dfs, runlog, written,
                   new_scrape_files, uploads, up_k, attempts,
                   file_upload_message, outcome, posted>>
    /\ UNCHANGED <<diffVars, enrVars, auxVars>>

\* load_pre_data_bln raises: the download of file j+1 fails, or (j = 3) a
\* downloaded file does not parse
LoadFail ==
    /\ pc = "load"
    /\ \E j \in 0..Len(bln_project_files) :
          tmp_data' = tmp_data \cup {bln_project_files[i] : i \in 1..j}
    /\ Fatal("load")
    /\ UNCHANGED <<snapshot, remote_new, bln_project_files, pre_dfs, stub_dfs,
                   new_dfs, new_data_stats, out_dfs, runlog, written,
                   new_scrape_files, uploads, up_k, attempts,
                   file_upload_message, outcome, posted>>
    /\ UNCHANGED <<diffVars, enrVars, auxVars>>

\* scrape_doge(): the three endpoints, each paged into one table
Crawl ==
    /\ pc = "crawl"
    /\ \E site \in TablesWithin(SiteRows, MaxSiteRows) :
          stub_dfs' = [c \in CatSet |-> RangeFrame(site[c])]
    /\ pc' = "normalize"
    /\ UNCHANGED <<fatal_at, snapshot, remote_new, bln_project_files, tmp_data,
                   pre_dfs, new_dfs, new_data_stats, out_dfs, runlog, written,
                   new_scrape_files, uploads, up_k, attempts,
                   file_upload_message, outcome, posted>>
    /\ UNCHANGED <<diffVars, enrVars, auxVars>>

\* scrape_doge() raises: a request fails or a response has not the shape
\* {result: {...}, meta: {pages}}
CrawlFail ==
    /\ pc = "crawl"
    /\ Fatal("crawl")
    /\ UNCHANGED <<snapshot, remote_new, bln_project_files, tmp_data, pre_dfs,
                   stub_dfs, new_dfs, new_data_stats, out_dfs, runlog, written,
                   new_scrape_files, uploads, up_k, attempts,
                   file_upload_message, outcome, posted>>
    /\ UNCHANGED <<diffVars, enrVars, auxVars>>

\* line 269: clean_stub_df on each scraped table
Normalize ==
    /\ pc = "normalize"
    /\ stub_dfs' = [c \in CatSet |-> clean_stub_df(c, stub_dfs[c])]
    /\ pc' = "diff"
    /\ UNCHANGED <<fatal_at, snapshot, remote_new, bln_project_files, tmp_data,
                   pre_dfs, new_dfs, new_data_stats, out_dfs, runlog, written,
                   new_scrape_files, uploads, up_k, attempts,
                   file_upload_message, outcome, posted>>
    /\ UNCHANGED <<diffVars, enrVars, auxVars>>

\* clean_stub_df raises: a location that holds no ', ' (loc_part_tup[1]) or
\* is null (loc.split)
NormalizeFail ==
    /\ pc = "normalize"
    /\ Fatal("normalize")
    /\ UNCHANGED <<snapshot, remote_new, bln_project_files, tmp_data, pre_dfs,
                   stub_dfs, new_dfs, new_data_stats, out_dfs, runlog, written,
                   new_scrape_files, uploads, up_k, attempts,
                   file_upload_message, outcome, posted>>
    /\ UNCHANGED <<diffVars, enrVars, auxVars>>

\* old_df[stub_df.columns] raises KeyError: the snapshot lacks a column of
\* the scraped table
DiffFail ==
    /\ pc = "diff"
    /\ Fatal("diff")
    /\ UNCHANGED <<snapshot, remote_new, bln_project_files, tmp_data, pre_dfs,
                   stub_dfs, new_dfs, new_data_stats, out_dfs, runlog, written,
                   new_scrape_files, uploads, up_k, attempts,
                   file_upload_message, outcome, posted>>
    /\ UNCHANGED <<diffVars, enrVars, auxVars>>

\* lines 271-280: the three diffs, then new_data_stats
Diff ==
    /\ pc = "diff"
    /\ new_dfs' = [c \in CatSet |-> df_row_diff_2(pre_dfs[c], stub_dfs[c]).new_df]
    /\ new_data_stats' = [c \in CatSet |-> Len(new_dfs'[c])]
    /\ pc' = "enrich_contract"
    /\ UNCHANGED <<fatal_at, snapshot, remote_new, bln_project_files, tmp_data,
                   pre_dfs, stub_dfs, out_dfs, runlog, written,
                   new_scrape_files, uploads, up_k, attempts,
                   file_upload_message, outcome, posted>>
    /\ UNCHANGED <<diffVars, enrVars, auxVars>>

\* a table scraped from zero pages is pd.DataFrame([]): it has no column, and
\* the attribute access .fpds_link / .link raises AttributeError
HasLinkColumn(cat) == Len(stub_dfs[cat]) > 0

\* validators.url of a null link: a falsy result or a TypeError, by the
\* version of the library
HasNullLink(frame) == \E i \in 1..Len(frame) : frame[i].row[1] = NaN

\* lines 282-284
EnrichContract ==
    /\ pc = "enrich_contract"
    /\ HasLinkColumn("contract")
    /\ \E resps \in ResponsesFor(new_dfs.contract) :
          LET res == extend_contract_data(new_dfs.contract, resps)
          IN  /\ new_dfs' = [new_dfs EXCEPT !.contract = res.out]
              /\ runlog' = runlog \o res.log
              /\ out_dfs' = [out_dfs EXCEPT
                                !.contract = concat_pre_new(pre_dfs.contract, res.out)]
    /\ pc' = "enrich_grant"
    /\ UNCHANGED <<fatal_at, snapshot, remote_new, bln_project_files, tmp_data,
                   pre_dfs, stub_dfs, new_data_stats, written,
                   new_scrape_files, uploads, up_k, attempts,
                   file_upload_message, outcome, posted>>
    /\ UNCHANGED <<diffVars, enrVars, auxVars>>

\* extend_contract_data raises outside its try
EnrichContractFatal ==
    /\ pc = "enrich_contract"
    /\ ~ HasLinkColumn("contract") \/ HasNullLink(new_dfs.contract)
    /\ Fatal("enrich_contract")
    /\ UNCHANGED <<snapshot, remote_new, bln_project_files, tmp_data, pre_dfs,
                   stub_dfs, new_dfs, new_data_stats, out_dfs, runlog, written,
                   new_scrape_files, uploads, up_k, attempts,
                   file_upload_message, outcome, posted>>
    /\ UNCHANGED <<diffVars, enrVars, auxVars>>

\* lines 286-291
EnrichGrant ==
    /\ pc = "enrich_grant"
    /\ HasLinkColumn("grant")
    /\ \E resps \in ResponsesFor(new_dfs.grant) :
          LET res == extend_grant_data(new_dfs.grant, resps)
              prop == without_enrichment(new_dfs.property)
          IN  /\ new_dfs' = [new_dfs EXCEPT !.grant = res.out, !.property = prop]
              /\ runlog' = runlog \o res.log
              /\ out_dfs' = [out_dfs EXCEPT
                                !.grant = concat_pre_new(pre_dfs.grant, res.out),
                                !.property = concat_pre_new(pre_dfs.property, prop)]
    /\ pc' = "save"
    /\ UNCHANGED <<fatal_at, snapshot, remote_new, bln_project_files, tmp_data,
                   pre_dfs, stub_dfs, new_data_stats, written,
                   new_scrape_files, uploads, up_k, attempts,
                   file_upload_message, outcome, posted>>
    /\ UNCHANGED <<diffVars, enrVars, auxVars>>

\* extend_grant_data raises outside its try
EnrichGrantFatal ==
    /\ pc = "enrich_grant"
    /\ ~ HasLinkColumn("grant")
    /\ Fatal("enrich_grant")
    /\ UNCHANGED <<snapshot, remote_new, bln_project_files, tmp_data, pre_dfs,
                   stub_dfs, new_dfs, new_data_stats, out_dfs, runlog, written,
                   new_scrape_files, uploads, up_k, attempts,
                   file_upload_message, outcome, posted>>
    /\ UNCHANGED <<diffVars, enrVars, auxVars>>

\* line 395: save_doge_data_bln
Save ==
    /\ pc = "save"
    /\ new_scrape_files' = save_doge_data_bln(new_data_stats)
    /\ written' = written \o new_scrape_files'
    /\ tmp_data' = tmp_data \cup SeqToSet(new_scrape_files')
    /\ pc' = "publish"
    /\ UNCHANGED <<fatal_at, snapshot, remote_new, bln_project_files, pre_dfs,
                   stub_dfs, new_dfs, new_data_stats, out_dfs, runlog,
                   uploads, up_k, attempts,
                   file_upload_message, outcome, posted>>
    /\ UNCHANGED <<diffVars, enrVars, auxVars>>

\* line 397: if new_scrape_files, enter copy_scrape_files_to_bln (line 195)
Publish ==
    /\ pc = "publish"
    /\ IF new_scrape_files # <<>>
       THEN /\ uploads' = [bound |-> TRUE, success |-> <<>>, failure |-> <<>>]
            /\ up_k' = 1
            /\ pc' = "upload"
       ELSE /\ UNCHANGED <<uploads, up_k>>
            /\ pc' = "delete"
    /\ UNCHANGED <<fatal_at, snapshot, remote_new, bln_project_files, tmp_data,
                   pre_dfs, stub_dfs, new_dfs, new_data_stats, out_dfs, runlog,
                   written, new_scrape_files, attempts,
                   file_upload_message, outcome, posted>>
    /\ UNCHANGED <<diffVars, enrVars, auxVars>>

\* one iteration of  for filename in scrape_files  (lines 197-207)
UploadFile ==
    /\ pc = "upload"
    /\ up_k <= Len(new_scrape_files)
    /\ \E ok \in BOOLEAN :
          LET f == new_scrape_files[up_k]
              it == upload_iter(uploads, f, ok)
          IN  /\ attempts' = Append(attempts, [file |-> f, ok |-> ok])
              /\ remote_new' = IF ok THEN remote_new \cup {f} ELSE remote_new
              /\ uploads' = it.uploads
              /\ IF it.escaped
                 THEN Fatal("upload") /\ UNCHANGED up_k
                 ELSE up_k' = up_k + 1 /\ UNCHANGED <<pc, fatal_at>>
    /\ UNCHANGED <<snapshot, bln_project_files, tmp_data,
                   pre_dfs, stub_dfs, new_dfs, new_data_stats, out_dfs, runlog,
                   written, new_scrape_files,
                   file_upload_message, outcome, posted>>
    /\ UNCHANGED <<diffVars, enrVars, auxVars>>

\* lines 209-215: the loop is over, uploads is returned
UploadReturn ==
    /\ pc = "upload"
    /\ up_k > Len(new_scrape_files)
    /\ pc' = "delete"
    /\ UNCHANGED <<fatal_at, snapshot, remote_new, bln_project_files, tmp_data,
                   pre_dfs, stub_dfs, new_dfs, new_data_stats, out_dfs, runlog,
                   written, new_scrape_files, uploads, up_k, attempts,
                   file_upload_message, outcome, posted>>
    /\ UNCHANGED <<diffVars, enrVars, auxVars>>

\* delete_tmp_data called as the TODO of line 408 has it, on the files of
\* the previous snapshots alone
delete_tmp_data_pre_only(dir, files_to_delete) ==
    dir \ (SeqToSet(files_to_delete) \cap SeqToSet(list_new_bln_project_files))

\* line 407: delete_tmp_data([*bln_project_files, *new_scrape_files])
delete_tmp_data(dir, files_to_delete) == dir \ SeqToSet(files_to_delete)

DeleteTmp ==
    /\ pc = "delete"
    /\ tmp_data' = delete_tmp_data(tmp_data, bln_project_files \o new_scrape_files)
    /\ pc' = "report"
    /\ UNCHANGED <<fatal_at, snapshot, remote_new, bln_project_files,
                   pre_dfs, stub_dfs, new_dfs, new_data_stats, out_dfs, runlog,
                   written, new_scrape_files, uploads, up_k, attempts,
                   file_upload_message, outcome, posted>>
    /\ UNCHANGED <<diffVars, enrVars, auxVars>>

\* lines 410-421: a read of an unbound local raises UnboundLocalError
Report ==
    /\ pc = "report"
    /\ LET r == report_message(uploads)
       IN  IF r.raised
           THEN /\ Fatal("report")
                /\ UNCHANGED <<file_upload_message, outcome>>
           ELSE /\ file_upload_message' = r.message
                /\ outcome' = r.outcome
                /\ pc' = "removedirs"
                /\ UNCHANGED fatal_at
    /\ UNCHANGED <<snapshot, remote_new, bln_project_files, tmp_data,
                   pre_dfs, stub_dfs, new_dfs, new_data_stats, out_dfs, runlog,
                   written, new_scrape_files, uploads, up_k, attempts, posted>>
    /\ UNCHANGED <<diffVars, enrVars, auxVars>>

\* lines 423-424: os.removedirs raises OSError on a directory that is not empty
RemoveDirs ==
    /\ pc = "removedirs"
    /\ IF tmp_data = {}
       THEN pc' = "post" /\ UNCHANGED fatal_at
       ELSE Fatal("removedirs")
    /\ UNCHANGED <<snapshot, remote_new, bln_project_files, tmp_data,
                   pre_dfs, stub_dfs, new_dfs, new_data_stats, out_dfs, runlog,
                   written, new_scrape_files, uploads, up_k, attempts,
                   file_upload_message, outcome, posted>>
    /\ UNCHANGED <<diffVars, enrVars, auxVars>>

\* lines 426-430: the final status message
Post ==
    /\ pc = "post"
    /\ posted' = Append(posted, [base |-> "Process complete.",
                                 parts |-> file_upload_message,
                                 type |-> outcome])
    /\ pc' = "done"
    /\ UNCHANGED <<fatal_at, snapshot, remote_new, bln_project_files, tmp_data,
                   pre_dfs, stub_dfs, new_dfs, new_data_stats, out_dfs, runlog,
                   written, new_scrape_files, uploads, up_k, attempts,
                   file_upload_message, outcome>>
    /\ UNCHANGED <<diffVars, enrVars, auxVars>>

(***************************************************************************)
(* Claims about run_pipeline                                               *)
(***************************************************************************)
AfterUpload ==
    \/ pc \in {"delete", "report", "removedirs", "post", "done"}
    \/ pc = "aborted" /\ fatal_at \in {"report", "removedirs"}

AfterSave ==
    \/ AfterUpload
    \/ pc \in {"publish", "upload"}
    \/ pc = "aborted" /\ fatal_at = "upload"

RunOver == pc \in {"done", "aborted"}

AttemptedFiles == [i \in 1..Len(attempts) |-> attempts[i].file]

Returned(a) == a.ok
Raised(a) == ~ a.ok
FilesOf(as) == [i \in 1..Len(as) |-> as[i].file]

\* for all three categories the snapshot and the normalized scrape agree
RowIdentical == \A c \in CatSet : pre_dfs[c] = RowsOf(stub_dfs[c])

\* C2: a run that got through update_doge_data with, for all three
\* categories, a scrape row-identical to the previous snapshot has zero new
\* rows in every category, writes no file, attempts no upload, and ends by
\* posting the final message "No new files found.".
C2_NoNewDataReported ==
    (RunOver /\ AfterSave /\ RowIdentical) =>
        /\ \A c \in CatSet : new_data_stats[c] = 0
        /\ written = <<>>
        /\ attempts = <<>>
        /\ Len(posted) = 1
        /\ posted[1].parts = <<no_new_files>>

\* C3: a run that ends without a fatal error has posted exactly one final
\* message, after the upload attempts, which carries the count and names of
\* the files uploaded and, when any upload failed, of the files that failed.
C3_ReportCarriesOutcomes ==
    pc = "done" =>
        LET ok == FilesOf(SelectSeq(attempts, Returned))
            bad == FilesOf(SelectSeq(attempts, Raised))
            parts == SeqToSet(posted[1].parts)
        IN  /\ Len(posted) = 1
            /\ Len(attempts) = Len(new_scrape_files)
            /\ ok # <<>> => uploaded_part(ok) \in parts
            /\ bad # <<>> => failed_part(bad) \in parts

\* C4: once the upload loop is over, uploads["success"] holds the files
\* whose upload call returned and uploads["failure"] those whose call
\* raised, so every attempted file is in exactly one of the two.
C4_OutcomePartition ==
    (AfterUpload /\ uploads.bound) =>
        /\ uploads.success = FilesOf(SelectSeq(attempts, Returned))
        /\ uploads.failure = FilesOf(SelectSeq(attempts, Raised))
        /\ \A f \in SeqToSet(new_scrape_files) :
              (f \in SeqToSet(uploads.success)) # (f \in SeqToSet(uploads.failure))

\* C8: once save_doge_data_bln has run, a category's file is written iff its
\* new-row count is above zero; once the uploads are over, the files an
\* upload was attempted for are exactly the files written.
C8_SkipOnEmpty ==
    /\ AfterSave =>
          \A c \in CatSet :
              (new_file(c) \in SeqToSet(written)) <=> (new_data_stats[c] > 0)
    /\ AfterUpload => SeqToSet(AttemptedFiles) = SeqToSet(written)

\* counts {contract: 0, grant: > 0, property: 0}: only the grant file
C8_Witness ==
    /\ pc = "delete"
    /\ new_data_stats.contract = 0 /\ new_data_stats.grant > 0
    /\ new_data_stats.property = 0
    /\ written = <<new_file("grant")>>
    /\ AttemptedFiles = <<new_file("grant")>>

\* C9: no upload failure ends the loop or the run; during the loop the files
\* attempted are the first up_k - 1 of the list, each once and in order, and
\* after it they are the whole list.
C9_EveryFileAttempted ==
    /\ fatal_at # "upload"
    /\ pc = "upload" =>
          AttemptedFiles = SubSeq(new_scrape_files, 1, up_k - 1)
    /\ (AfterUpload /\ uploads.bound) => AttemptedFiles = new_scrape_files

\* the first upload raised and the later files were attempted all the same
C9_Witness ==
    /\ pc = "delete"
    /\ Len(attempts) = 3
    /\ ~ attempts[1].ok /\ ~ attempts[2].ok /\ attempts[3].ok

\* C10: once an exception was raised while loading, crawling, normalizing,
\* diffing or enriching, the run has uploaded nothing and attempts no upload.
C10_FatalPublishesNothing ==
    fatal_at \in UpdateSteps => (remote_new = {} /\ attempts = <<>> /\ written = <<>>)

\* a run with new contract rows that died in the grant enrichment
C10_Witness ==
    /\ pc = "aborted"
    /\ fatal_at = "enrich_grant"
    /\ new_data_stats.contract > 0

\* the local temporary files of the run: the downloaded previous snapshots
\* and the snapshot files written
RunFiles == SeqToSet(bln_project_files) \cup SeqToSet(written)

BeforeDelete ==
    \/ pc \in {"publish", "upload", "delete"}
    \/ pc = "aborted" /\ fatal_at = "upload"

Downloaded ==
    \/ pc \in {"crawl", "normalize", "diff", "enrich_contract", "enrich_grant", "save"}
    \/ pc = "aborted" /\ fatal_at \in UpdateSteps \ {"load"}

\* C11: once the upload attempts are over and delete_tmp_data has run, no
\* downloaded previous-snapshot file and no written snapshot file is left in
\* ./tmp_data, whatever the outcomes of the uploads; up to then every file
\* downloaded or written is still there.
C11_TmpDeletedAfterUploads ==
    /\ (AfterUpload /\ pc # "delete") => tmp_data \cap RunFiles = {}
    /\ BeforeDelete => RunFiles \subseteq tmp_data
    /\ Downloaded => SeqToSet(bln_project_files) \subseteq tmp_data

\* two files written, an upload failed, delete_tmp_data has run
C11_Witness ==
    /\ pc = "report"
    /\ Len(written) = 2
    /\ \E i \in 1..Len(attempts) : ~ attempts[i].ok
    /\ tmp_data = {}

\* the phases of a run, in order
Phases ==
    <<"LOAD_PREVIOUS", "CRAWL", "NORMALIZE", "DIFF", "ENRICH", "PUBLISH", "REPORT">>

\* the phase a statement of run_pipeline / update_doge_data belongs to
PhaseOf(step) ==
    CASE step \in {"start", "load"} -> 1
      [] step = "crawl" -> 2
      [] step = "normalize" -> 3
      [] step = "diff" -> 4
      [] step \in {"enrich_contract", "enrich_grant"} -> 5
      [] step \in {"save", "publish", "upload", "delete"} -> 6
      [] OTHER -> 7

\* the phase the run is in, or ended in
PhaseNum == IF pc = "aborted" THEN PhaseOf(fatal_at) ELSE PhaseOf(pc)

\* what has happened by the phase the run is in
PhaseEffects ==
    /\ PhaseNum <= 1 => stub_dfs = NoTables
    /\ PhaseNum >= 2 =>
          /\ pre_dfs = snapshot
          /\ PhaseNum <= 5 => SeqToSet(bln_project_files) \subseteq tmp_data
    /\ PhaseNum <= 4 => (runlog = <<>> /\ out_dfs = NoTables)
    /\ PhaseNum = 5 =>
          \A c \in CatSet :
              new_data_stats[c] = Len(df_row_diff_2(pre_dfs[c], stub_dfs[c]).new_df)
    /\ PhaseNum <= 5 => (written = <<>> /\ attempts = <<>> /\ remote_new = {})
    /\ PhaseNum <= 6 => posted = <<>>
    /\ posted # <<>> => (pc = "done" /\ Len(attempts) = Len(new_scrape_files))

\* C17: every step of a run stays in its phase or enters the next one of
\* LOAD_PREVIOUS, CRAWL, NORMALIZE, DIFF, ENRICH, PUBLISH, REPORT, never an
\* earlier one; no page is scraped before the previous snapshots are
\* downloaded, no enrichment fetch made before the three diffs are
\* computed, no file written or uploaded before both enrichments are over,
\* and the final message is posted after the last upload attempt.
C17_PhaseOrder ==
    [][ /\ PhaseNum' \in {PhaseNum, PhaseNum + 1}
        /\ PhaseEffects
        /\ PhaseEffects' ]_vars

\* a run that went through all seven phases, uploads included
C17_Witness ==
    /\ pc = "done"
    /\ Len(attempts) = 2
    /\ runlog # <<>>
    /\ Len(posted) = 1

\* C20: for each category the table update_doge_data returns holds the rows
\* of the previous snapshot, unchanged and in order, then the new-only rows
\* of the diff in order (compared when update_doge_data returns), stamped
\* with dt_scrape: previous count plus new_data_stats rows; a run adds
\* files to the remote project and neither replaces nor removes one that
\* was there.
C20_AppendOnly ==
    /\ PhaseNum >= 6 =>
          \A c \in CatSet :
              LET pre == pre_dfs[c]
                  out == out_dfs[c]
              IN  /\ Len(out) = Len(pre) + new_data_stats[c]
                  /\ \A i \in 1..Len(pre) :
                        out[i].row = pre[i] /\ out[i].dt_scrape = "prev"
                  /\ \A j \in 1..new_data_stats[c] :
                        out[Len(pre) + j].dt_scrape = "dt"
    /\ pc = "save" =>
          \A c \in CatSet :
              LET new == df_row_diff_2(pre_dfs[c], stub_dfs[c]).new_df
              IN  /\ Len(new) = new_data_stats[c]
                  /\ \A j \in 1..Len(new) :
                        out_dfs[c][Len(pre_dfs[c]) + j].row = new[j].row
    /\ remote_new \cap SeqToSet(list_new_bln_project_files) = {}
    /\ remote_new \subseteq SeqToSet(written)
    /\ PhaseNum >= 2 => snapshot = pre_dfs

\* a snapshot with rows, new contract and grant rows appended, files uploaded
C20_Witness ==
    /\ pc = "delete"
    /\ Len(pre_dfs.contract) > 0
    /\ new_data_stats.contract > 0
    /\ new_data_stats.grant > 0
    /\ Len(out_dfs.contract) = Len(pre_dfs.contract) + new_data_stats.contract
    /\ remote_new # {}

(***************************************************************************)
(* limit_req (src/doge_scrape.py:74-80): requests.get under the decorators *)
(* sleep_and_retry and limits(calls=N_REQ, period=LIMIT_S) of the          *)
(* ratelimit package.  The clock counts whole seconds.                     *)
(***************************************************************************)
N_REQ == 10
LIMIT_S == 3
\* most calls of limit_req in a behaviour
MaxCalls == 12
\* the clock value after which the caller lets no more time pass
MaxTime == 4

\* the wrapper of limits that tests the counter before counting the attempt
limits_wrapper_check_first(now, last, n) ==
    LET period_remaining == LIMIT_S - (now - last)
        reset == period_remaining <= 0
        n0 == IF reset THEN 0 ELSE n
    IN  [last_reset |-> IF reset THEN now ELSE last,
         num_calls |-> n0 + 1,
         reset |-> reset,
         raised |-> n0 > N_REQ,
         period_remaining |-> period_remaining]

\* the wrapper of @limits: when the period has elapsed the counter is reset
\* and the period restarts at the present attempt; the attempt is counted;
\* above N_REQ attempts RateLimitException(period_remaining) is raised
limits_wrapper(now, last, n) ==
    LET period_remaining == LIMIT_S - (now - last)
        reset == period_remaining <= 0
        n1 == (IF reset THEN 0 ELSE n) + 1
    IN  [last_reset |-> IF reset THEN now ELSE last,
         num_calls |-> n1,
         reset |-> reset,
         raised |-> n1 > N_REQ,
         period_remaining |-> period_remaining]

\* lim_recent after d seconds have passed
shift_recent(recent, d) ==
    [i \in 1..LIMIT_S |-> IF i - d >= 1 THEN recent[i - d] ELSE 0]

RECURSIVE SumUpTo(_, _)
SumUpTo(f, n) == IF n = 0 THEN 0 ELSE f[n] + SumUpTo(f, n - 1)

LimIdle ==
    /\ lim_now = 0 /\ last_reset = 0 /\ num_calls = 0
    /\ lim_pc = "off" /\ lim_wake = 0 /\ lim_calls = 0 /\ lim_total = 0
    /\ lim_window = 0 /\ lim_recent = [i \in 1..LIMIT_S |-> 0]
    /\ lim_slept = 0 /\ lim_result = "none"

\* the limiter is built when the module is imported: last_reset = clock()
InitLimit ==
    /\ lim_now = 0 /\ last_reset = 0 /\ num_calls = 0
    /\ lim_pc = "idle" /\ lim_wake = 0 /\ lim_calls = 0 /\ lim_total = 0
    /\ lim_window = 0 /\ lim_recent = [i \in 1..LIMIT_S |-> 0]
    /\ lim_slept = 0 /\ lim_result = "none"

\* one pass of the while loop of sleep_and_retry at clock value t: the
\* wrapper of limits, then either time.sleep or the body of limit_req
limit_req_attempt(t, recent, slept) ==
    LET w == limits_wrapper(t, last_reset, num_calls)
    IN  /\ lim_now' = t
        /\ last_reset' = w.last_reset
        /\ num_calls' = w.num_calls
        /\ IF w.raised
           THEN /\ lim_pc' = "sleeping"
                /\ lim_wake' = t + w.period_remaining
                /\ lim_slept' = slept + 1
                /\ lim_recent' = recent
                /\ lim_window' = IF w.reset THEN 0 ELSE lim_window
                /\ UNCHANGED <<lim_total, lim_result>>
           ELSE /\ lim_pc' = "idle"
                /\ lim_total' = lim_total + 1
                /\ lim_window' = (IF w.reset THEN 0 ELSE lim_window) + 1
                /\ lim_recent' = [recent EXCEPT ![1] = @ + 1]
                /\ \E resp \in Responses :
                      lim_result' = IF limit_req_raises(resp)
                                    THEN "raised" ELSE "returned"
                /\ lim_slept' = slept
                /\ UNCHANGED lim_wake

\* a caller calls limit_req(url, headers)
LimitReqCall ==
    /\ lim_pc = "idle"
    /\ lim_calls < MaxCalls
    /\ lim_calls' = lim_calls + 1
    /\ limit_req_attempt(lim_now, lim_recent, 0)
    /\ UNCHANGED limOthers

\* time.sleep(exception.period_remaining) is over; the loop of
\* sleep_and_retry calls the wrapper again
SleepRetry ==
    /\ lim_pc = "sleeping"
    /\ limit_req_attempt(lim_wake, shift_recent(lim_recent, lim_wake - lim_now),
                         lim_slept)
    /\ UNCHANGED lim_calls
    /\ UNCHANGED limOthers

\* a second passes between two calls
LimTick ==
    /\ lim_pc = "idle"
    /\ lim_now < MaxTime
    /\ lim_now' = lim_now + 1
    /\ lim_recent' = shift_recent(lim_recent, 1)
    /\ UNCHANGED <<last_reset, num_calls, lim_pc, lim_wake, lim_calls,
                   lim_total, lim_window, lim_slept, lim_result>>
    /\ UNCHANGED limOthers

\* a call is never rejected or dropped: a call that ended has issued its
\* request, and a call that sleeps sleeps once, to the end of the period
NeverDropped ==
    /\ lim_pc = "idle" => lim_total = lim_calls
    /\ lim_pc = "sleeping" =>
          /\ lim_total = lim_calls - 1
          /\ lim_slept = 1
          /\ lim_wake = last_reset + LIMIT_S

\* C12 as stated: in every span of LIMIT_S seconds at most N_REQ requests
\* are issued, and no call is rejected or dropped.
C12_AnyWindowCeiling ==
    /\ SumUpTo(lim_recent, LIMIT_S) <= N_REQ
    /\ NeverDropped

\* C12 amended: in every period of the limiter (the LIMIT_S seconds that
\* start at last_reset) at most N_REQ requests are issued, and no call is
\* rejected or dropped; a span of LIMIT_S seconds that straddles two periods
\* holds at most 2 * N_REQ requests.
C12_PeriodCeiling ==
    /\ lim_window <= N_REQ
    /\ SumUpTo(lim_recent, LIMIT_S) <= 2 * N_REQ
    /\ NeverDropped

\* the call above the ceiling has slept to the end of the period and issued
C12_Witness ==
    /\ lim_pc = "idle"
    /\ lim_slept = 1
    /\ lim_total = N_REQ + 1
    /\ lim_now = last_reset


(***************************************************************************)
(* scrape_doge_endpoint (src/doge_scrape.py:85-97) against a source that   *)
(* reports cr_pages pages and serves cr_site[p] as the records of page p.  *)
(***************************************************************************)
\* most pages the source reports
MaxPages == 4
\* most records on one page
MaxPerPage == 2

\* scrape_doge: the three endpoint_str
Endpoints == {"contracts", "grants", "leases"}

\* keys of a record of the source
RecordKeys == {"description", "value"}

\* record k of page p of an endpoint
Record(e, p, k) == [endpoint |-> e, page |-> p, k |-> k]

\* r.json() of the request for a page: the records of the page, none for a
\* page the source has not, and the page count
Response(p) ==
    [result |-> IF p \in 1..cr_pages THEN cr_site[p] ELSE <<>>,
     pages |-> cr_pages]

\* the loop test with <= for <
more_pages_le(pg, pages) == pg <= pages

\* line 92: p_scrape = page < r.json()['meta']['pages']
more_pages(pg, pages) == pg < pages

\* lines 95-96: pd.DataFrame(endpoint_json_list), then the column
\* 'description' renamed; a frame of no record has no column
DataFrame(json_list) ==
    [columns |-> IF json_list = <<>> THEN {}
                 ELSE {IF k = "description" THEN "description_doge" ELSE k :
                          k \in RecordKeys},
     rows |-> json_list]

CrawlIdle ==
    /\ cr_pc = "off" /\ cr_endpoint = "none" /\ cr_pages = 0 /\ cr_site = <<>>
    /\ page = 0 /\ p_scrape = FALSE /\ endpoint_json_list = <<>>
    /\ cr_requests = <<>> /\ cr_df = DataFrame(<<>>)

\* lines 86-88
InitCrawlInputs ==
    /\ cr_pc = "loop"
    /\ cr_endpoint \in Endpoints
    /\ cr_pages \in 0..MaxPages
    /\ \E n \in [1..cr_pages -> 1..MaxPerPage] :
          cr_site = [p \in 1..cr_pages |->
                        [k \in 1..n[p] |-> Record(cr_endpoint, p, k)]]
    /\ page = 1 /\ p_scrape = TRUE /\ endpoint_json_list = <<>>
    /\ cr_requests = <<>> /\ cr_df = DataFrame(<<>>)

\* one pass of  while p_scrape  (lines 89-94)
CrawlLoop ==
    /\ cr_pc = "loop"
    /\ p_scrape
    /\ LET r == Response(page)
       IN  /\ cr_requests' = Append(cr_requests, [page |-> page, via |-> "req.get"])
           /\ p_scrape' = more_pages(page, r.pages)
           /\ endpoint_json_list' = endpoint_json_list \o r.result
    /\ page' = page + 1
    /\ UNCHANGED <<cr_pc, cr_endpoint, cr_pages, cr_site, cr_df>>
    /\ UNCHANGED crawlOthers

\* lines 95-97
CrawlReturn ==
    /\ cr_pc = "loop"
    /\ ~ p_scrape
    /\ cr_df' = DataFrame(endpoint_json_list)
    /\ cr_pc' = "returned"
    /\ UNCHANGED <<cr_endpoint, cr_pages, cr_site, page, p_scrape,
                   endpoint_json_list, cr_requests>>
    /\ UNCHANGED crawlOthers

RECURSIVE PagesConcat(_)
\* the records of pages 1..n in page order
PagesConcat(n) == IF n = 0 THEN <<>> ELSE PagesConcat(n - 1) \o cr_site[n]

\* pages the loop requests for a page count: page 1 always, then up to P
LastPage == IF cr_pages = 0 THEN 1 ELSE cr_pages

RequestedPages == [i \in 1..Len(cr_requests) |-> cr_requests[i].page]

\* C13: scrape_doge_endpoint requests the pages 1, 2, .. in order, each
\* once, never beyond the page whose response reports no further page (so
\* the loop ends after at most max(P, 1) requests); what it returns holds
\* the records of the pages 1..P in page order, and for P = 0 is empty.
C13_PagedCrawl ==
    /\ cr_pc = "loop" =>
          /\ RequestedPages = [i \in 1..(page - 1) |-> i]
          /\ page - 1 <= LastPage
          /\ p_scrape <=> (page = 1 \/ page - 1 < cr_pages)
    /\ cr_pc = "returned" =>
          /\ RequestedPages = [i \in 1..LastPage |-> i]
          /\ cr_df.rows = PagesConcat(cr_pages)
          /\ cr_pages = 0 => cr_df = DataFrame(<<>>)

\* a crawl of three pages has returned
C13_Witness ==
    /\ cr_pc = "returned"
    /\ cr_pages = 3
    /\ Len(cr_requests) = 3
    /\ Len(cr_df.rows) > 3

\* C18: every request scrape_doge_endpoint issues goes through limit_req, as
\* every request of extend_grant_data does (grant_iter), so that the
\* limiter counts the requests of both.
C18_CrawlThroughLimiter ==
    \A i \in 1..Len(cr_requests) : cr_requests[i].via = "limit_req"

(***************************************************************************)
(* clean_stub_df and safe_to_dt (src/doge_scrape.py:111-116, 131-149).     *)
(* A table is [cols, rows]: cols the set of column names, rows a sequence  *)
(* of functions from cols to cells.  A cell is a string.                   *)
(***************************************************************************)
\* most rows of a table given to clean_stub_df
MaxCleanRows == 1

\* column names of the raw tables, as served and in canonical spelling
RawName(kind, titled) ==
    IF ~ titled THEN kind
    ELSE CASE kind = "location" -> "Location"
           [] kind = "uploaded_on" -> "Uploaded On"
           [] OTHER -> kind

Kinds == {"location", "uploaded_on", "link", "vendor"}

\* k.lower().replace(' ','_')
canonical(k) ==
    CASE k = "Location" -> "location"
      [] k = "Uploaded On" -> "uploaded_on"
      [] OTHER -> k

\* cells a raw column may hold
CellsOf(k) ==
    CASE canonical(k) = "location" ->
            {NaN, "Reno", "Reno, NV", "Reno, GSA", "Reno, NV, GSA",
             "Reno, GSA, Annex"}
      [] canonical(k) = "uploaded_on" -> {NaN, "1/2/2025", "soon"}
      [] canonical(k) = "link" -> {NaN, "url"}
      [] OTHER -> {"N/A", "Acme"}

\* loc.split(', ')
split(loc) ==
    CASE loc = "Reno, NV" -> <<"Reno", "NV">>
      [] loc = "Reno, GSA" -> <<"Reno", "GSA">>
      [] loc = "Reno, NV, GSA" -> <<"Reno", "NV", "GSA">>
      [] loc = "Reno, GSA, Annex" -> <<"Reno", "GSA", "Annex">>
      [] OTHER -> <<loc>>

\* len(token) == 2
two_chars(token) == token = "NV"

\* safe_to_dt: pd.to_datetime, None when it raises
safe_to_dt(dtstr) ==
    CASE dtstr = "1/2/2025" -> "Timestamp 2025-01-02"
      [] dtstr = NaN -> "NaT"
      [] OTHER -> "None"

\* df[name] = values, one cell for each row
with_column(df, name, values) ==
    [cols |-> df.cols \cup {name},
     rows |-> [i \in 1..Len(df.rows) |->
                 [c \in df.cols \cup {name} |->
                     IF c = name THEN values[i] ELSE df.rows[i][c]]]]

\* line 132: df.columns = [k.lower().replace(' ','_') for k in df.keys()]
rename_columns(df) ==
    [cols |-> {canonical(k) : k \in df.cols},
     rows |-> [i \in 1..Len(df.rows) |->
                 [c \in {canonical(k) : k \in df.cols} |->
                     df.rows[i][CHOOSE k \in df.cols : canonical(k) = c]]]]

\* lines 134-135
parse_dates(df) ==
    IF "uploaded_on" \in df.cols
    THEN LET dt(row) == safe_to_dt(row["uploaded_on"])
         IN  with_column(df, "uploaded_dt",
                         [i \in 1..Len(df.rows) |-> dt(df.rows[i])])
    ELSE df

\* loc.split raises AttributeError on a null, loc_part_tup[1] raises
\* IndexError on a location without ', '
location_raises(df) ==
    /\ "location" \in df.cols
    /\ \E i \in 1..Len(df.rows) :
          \/ df.rows[i]["location"] = NaN
          \/ Len(split(df.rows[i]["location"])) < 2

\* line 141 with 'location' for 'city'
city_column_location == "location"

\* line 141: the column df.loc[idx,'city'] writes
city_column == "city"

\* lines 137-144, when nothing raises: loc_part_list is built before the
\* loop; each row gets city, then state, then (more than two parts) agency;
\* a column the loop creates holds NaN in the rows it did not write
split_location(df) ==
    IF "location" \notin df.cols \/ df.rows = <<>>
    THEN df
    ELSE LET parts(row) == split(row["location"])
             city_pred(row) == two_chars(parts(row)[2])
             sets_agency(row) == Len(parts(row)) > 2
             cols2 == df.cols \cup {city_column, "state"} \cup
                      (IF \E i \in 1..Len(df.rows) : sets_agency(df.rows[i])
                       THEN {"agency"} ELSE {})
             cell(row, c) ==
                 IF c = "agency" /\ sets_agency(row)
                 THEN (IF city_pred(row) THEN parts(row)[3] ELSE parts(row)[2])
                 ELSE IF c = "state"
                      THEN (IF city_pred(row) THEN parts(row)[2] ELSE "")
                      ELSE IF c = city_column
                           THEN parts(row)[1]
                           ELSE IF c \in df.cols THEN row[c] ELSE NaN
         IN  [cols |-> cols2,
              rows |-> [i \in 1..Len(df.rows) |->
                          [c \in cols2 |-> cell(df.rows[i], c)]]]

\* lines 145-146: df.link = df.link.fillna('')
fill_link(df) ==
    IF "link" \in df.cols
    THEN LET filled(row) == IF row["link"] = NaN THEN "" ELSE row["link"]
         IN  with_column(df, "link",
                         [i \in 1..Len(df.rows) |-> filled(df.rows[i])])
    ELSE df

\* lines 147-148: df.loc[df.vendor == 'N/A','vendor'] = ''
blank_vendor(df) ==
    IF "vendor" \in df.cols
    THEN LET blanked(row) == IF row["vendor"] = "N/A" THEN "" ELSE row["vendor"]
         IN  with_column(df, "vendor",
                         [i \in 1..Len(df.rows) |-> blanked(df.rows[i])])
    ELSE df

\* clean_stub_df(df) on a table with all its columns: whether it raises, and
\* the table it returns
clean_stub_df_table(df) ==
    LET dated == parse_dates(rename_columns(df))
    IN  IF location_raises(dated)
        THEN [raised |-> TRUE, df |-> dated]
        ELSE [raised |-> FALSE,
              df |-> blank_vendor(fill_link(split_location(dated)))]

EmptyTable == [cols |-> {}, rows |-> <<>>]
NotCleaned == [raised |-> FALSE, df |-> EmptyTable]

CleanIdle ==
    /\ cl_pc = "off" /\ cl_in = EmptyTable
    /\ cl_out = NotCleaned /\ cl_out2 = NotCleaned

\* the raw tables: any of the columns, names as served or canonical
InitCleanInputs ==
    /\ cl_pc = "raw"
    /\ \E ks \in SUBSET Kinds, titled \in BOOLEAN :
          LET cols == {RawName(k, titled) : k \in ks}
              RowSet == {r \in [cols -> UNION {CellsOf(k) : k \in cols}] :
                            \A k \in cols : r[k] \in CellsOf(k)}
          IN  \E rows \in SeqsUpTo(RowSet, MaxCleanRows) :
                 cl_in = [cols |-> cols, rows |-> rows]
    /\ cl_out = NotCleaned /\ cl_out2 = NotCleaned

\* clean_stub_df(df)
Clean ==
    /\ cl_pc = "raw"
    /\ cl_out' = clean_stub_df_table(cl_in)
    /\ cl_pc' = IF cl_out'.raised THEN "raised" ELSE "cleaned"
    /\ UNCHANGED <<cl_in, cl_out2>>
    /\ UNCHANGED cleanOthers

\* clean_stub_df applied to the table it returned
CleanAgain ==
    /\ cl_pc = "cleaned"
    /\ cl_out2' = clean_stub_df_table(cl_out.df)
    /\ cl_pc' = "recleaned"
    /\ UNCHANGED <<cl_in, cl_out>>
    /\ UNCHANGED cleanOthers

\* C14: clean_stub_df raises for no raw table.
C14_CleanTotal == cl_pc # "raised"

\* C15: clean_stub_df applied to a table it returned raises nothing and
\* returns that table again, the same columns and the same cells.
C15_CleanIdempotent ==
    cl_pc = "recleaned" => (~ cl_out2.raised /\ cl_out2.df = cl_out.df)

\* a table with a location, a date, a null link and an N/A vendor, cleaned
\* twice
C15_Witness ==
    /\ cl_pc = "recleaned"
    /\ Len(cl_in.rows) = 1
    /\ cl_in.cols = {RawName(k, TRUE) : k \in Kinds}
    /\ cl_in.rows[1]["Location"] = "Reno, GSA, Annex"
    /\ cl_in.rows[1]["link"] = NaN
    /\ cl_in.rows[1]["vendor"] = "N/A"

\* C19: in a table clean_stub_df returned, city is the first token of the
\* location; a second token of two characters is the state, and a third
\* token the agency; a second token of another length leaves state empty
\* and is the agency, for a location of two tokens as for a longer one.
C19_LocationSplit ==
    (cl_pc = "cleaned" /\ "location" \in cl_out.df.cols) =>
        \A i \in 1..Len(cl_out.df.rows) :
            LET row == cl_out.df.rows[i]
                t == split(row["location"])
            IN  /\ row["city"] = t[1]
                /\ IF two_chars(t[2])
                   THEN /\ row["state"] = t[2]
                        /\ Len(t) > 2 => ("agency" \in DOMAIN row /\ row["agency"] = t[3])
                   ELSE /\ row["state"] = ""
                        /\ "agency" \in DOMAIN row /\ row["agency"] = t[2]

(***************************************************************************)
(* run.py (src/run.py:21-24) and set_environment (src/helpers.py:29-80).   *)
(***************************************************************************)
\* os.environ.get of a variable that is not set
None == "None"
\* a key the .env file does not hold
Absent == "absent"

required_env_vars ==
    <<"BLN_API_TOKEN", "BLN_PROJECT_ID", "SLACK_ERROR_TOKEN", "SLACK_ERROR_CHANNEL_ID">>

RequiredKeys == {required_env_vars[i] : i \in 1..Len(required_env_vars)}

\* sys.argv[1:], the strings a run may be started with
Argvs == {<<>>, <<"test">>, <<" prod ">>, <<"dev">>}

\* str.strip()
strip(v) ==
    CASE v = " " -> ""
      [] v = " prod " -> "prod"
      [] OTHER -> v

\* not value
falsy(v) == v = None \/ v = ""

\* the test of line 74 without its second half
var_rejected_unstripped(value) == falsy(value)

\* line 74: not value or not value.strip()
var_rejected(value) == falsy(value) \/ falsy(strip(value))

\* load_dotenv(dotenv_path, override=True): a key of the file replaces the
\* variable of the process
load_dotenv(environ, file) ==
    [k \in RequiredKeys |-> IF file[k] # Absent THEN file[k] ELSE environ[k]]

RunIdle ==
    /\ rp_pc = "off" /\ sys_argv = <<>>
    /\ os_environ = [k \in RequiredKeys |-> None]
    /\ dotenv_file = [k \in RequiredKeys |-> Absent]
    /\ rp_key = 0 /\ environment = None /\ rp_requests = <<>>

\* python run.py [env], with the variables of the process and the .env file
InitRunInputs ==
    /\ rp_pc = "argv"
    /\ sys_argv \in Argvs
    /\ os_environ \in [RequiredKeys -> {None, "tok"}]
    /\ dotenv_file \in [RequiredKeys -> {Absent, "", " ", "tok"}]
    /\ rp_key = 0 /\ environment = None /\ rp_requests = <<>>

\* helpers.py lines 49-56
CheckArgv ==
    /\ rp_pc = "argv"
    /\ IF Len(sys_argv) < 1
       THEN rp_pc' = "exited"
       ELSE IF strip(sys_argv[1]) \notin {"test", "prod"}
            THEN rp_pc' = "exited"
            ELSE rp_pc' = "dotenv"
    /\ UNCHANGED <<sys_argv, os_environ, dotenv_file, rp_key, environment,
                   rp_requests>>
    /\ UNCHANGED runOthers

\* helpers.py lines 58-71
LoadDotenv ==
    /\ rp_pc = "dotenv"
    /\ os_environ' = load_dotenv(os_environ, dotenv_file)
    /\ rp_key' = 1
    /\ rp_pc' = "check"
    /\ UNCHANGED <<sys_argv, dotenv_file, environment, rp_requests>>
    /\ UNCHANGED runOthers

\* one pass of  for key in required_env_vars  (helpers.py lines 72-78)
CheckVar ==
    /\ rp_pc = "check"
    /\ rp_key <= Len(required_env_vars)
    /\ IF var_rejected(os_environ[required_env_vars[rp_key]])
       THEN rp_pc' = "raised" /\ UNCHANGED rp_key
       ELSE rp_key' = rp_key + 1 /\ UNCHANGED rp_pc
    /\ UNCHANGED <<sys_argv, os_environ, dotenv_file, environment, rp_requests>>
    /\ UNCHANGED runOthers

\* helpers.py lines 79-80, run.py line 23
ReturnEnv ==
    /\ rp_pc = "check"
    /\ rp_key > Len(required_env_vars)
    /\ environment' = strip(sys_argv[1])
    /\ rp_pc' = "run_pipeline"
    /\ UNCHANGED <<sys_argv, os_environ, dotenv_file, rp_key, rp_requests>>
    /\ UNCHANGED runOthers

\* run.py line 24: run_pipeline(environment), up to its first request, the
\* listing of the project's files (sync_doge_scrape.py line 387)
RunPipeline ==
    /\ rp_pc = "run_pipeline"
    /\ rp_requests' = Append(rp_requests, "storage")
    /\ rp_pc' = "running"
    /\ UNCHANGED <<sys_argv, os_environ, dotenv_file, rp_key, environment>>
    /\ UNCHANGED runOthers

\* the configuration the run was started with is complete
Configured ==
    /\ sys_argv # <<>>
    /\ strip(sys_argv[1]) \in {"test", "prod"}
    /\ \A k \in RequiredKeys :
          LET v == IF dotenv_file[k] # Absent THEN dotenv_file[k]
                   ELSE os_environ[k]
          IN  v \notin {None, "", " "}

\* C16: a request is issued only after set_environment has returned, and a
\* run whose environment argument is missing or not test/prod, or whose
\* required settings are not all set and non-blank, ends in set_environment
\* (exit or RuntimeError) with no request issued.
C16_ConfigBeforeNetwork ==
    /\ rp_requests # <<>> => (Configured /\ rp_pc = "running")
    /\ rp_pc \in {"exited", "raised"} => (~ Configured /\ rp_requests = <<>>)
    /\ ~ Configured => rp_pc \in {"off", "argv", "dotenv", "check", "exited", "raised"}
    /\ rp_pc \in {"run_pipeline", "running"} => environment \in {"test", "prod"}

\* SLACK_ERROR_CHANNEL_ID is blank in the .env file and the run has ended
C16_Witness ==
    /\ rp_pc = "raised"
    /\ rp_key = 4
    /\ dotenv_file["SLACK_ERROR_CHANNEL_ID"] = " "
    /\ os_environ["SLACK_ERROR_CHANNEL_ID"] = " "
    /\ rp_requests = <<>>

AuxIdle == LimIdle /\ CrawlIdle /\ CleanIdle /\ RunIdle

InitCrawl ==
    InitCrawlInputs /\ DiffIdle /\ EnrichIdle /\ PipeIdle /\ LimIdle /\ CleanIdle
    /\ RunIdle

NextCrawl == CrawlLoop \/ CrawlReturn

SpecCrawl == InitCrawl /\ [][NextCrawl]_vars

InitLim ==
    InitLimit /\ DiffIdle /\ EnrichIdle /\ PipeIdle /\ CrawlIdle /\ CleanIdle
    /\ RunIdle

NextLimit == LimitReqCall \/ SleepRetry \/ LimTick

SpecLimit == InitLim /\ [][NextLimit]_vars

InitClean ==
    InitCleanInputs /\ DiffIdle /\ EnrichIdle /\ PipeIdle /\ LimIdle /\ CrawlIdle
    /\ RunIdle

NextClean == Clean \/ CleanAgain

SpecClean == InitClean /\ [][NextClean]_vars

InitRun ==
    InitRunInputs /\ DiffIdle /\ EnrichIdle /\ PipeIdle /\ LimIdle /\ CrawlIdle
    /\ CleanIdle

NextRun == CheckArgv \/ LoadDotenv \/ CheckVar \/ ReturnEnv \/ RunPipeline

SpecRun == InitRun /\ [][NextRun]_vars

InitDiff == InitDiffInputs /\ EnrichIdle /\ PipeIdle /\ AuxIdle

NextDiff == DiffLoop \/ DiffReturn

SpecDiff == InitDiff /\ [][NextDiff]_vars

InitEnrich == InitEnrichInputs /\ DiffIdle /\ PipeIdle /\ AuxIdle

NextEnrich == EnrichLoop \/ EnrichReturn

SpecEnrich == InitEnrich /\ [][NextEnrich]_vars

Init == InitPipe /\ DiffIdle /\ EnrichIdle /\ AuxIdle

Next ==
    \/ ListFiles \/ LoadPre \/ LoadFail
    \/ Crawl \/ CrawlFail \/ Normalize \/ NormalizeFail \/ Diff \/ DiffFail
    \/ EnrichContract \/ EnrichContractFatal
    \/ EnrichGrant \/ EnrichGrantFatal
    \/ Save \/ Publish \/ UploadFile \/ UploadReturn
    \/ DeleteTmp \/ Report \/ RemoveDirs \/ Post

Spec == Init /\ [][Next]_vars

====
